---- MODULE Spec2Model ----
(***************************************************************************)
(* LimitedUdpRecv (lib/g3-io-ext/src/udp/recv.rs): a datagram receiver     *)
(* that layers a packets-per-window and bytes-per-window limit, a          *)
(* deferred-wake timer and a statistics sink over an AsyncUdpRecv          *)
(* endpoint.                                                               *)
(*                                                                         *)
(* The clock is the number of milliseconds since `started`.  One poll of   *)
(* the receiver is one step: it samples the clock once and its timer poll  *)
(* sees the same instant.                                                  *)
(***************************************************************************)
EXTENDS Integers, Sequences, FiniteSets, TLC

VARIABLES
    inner,      \* the endpoint: [queue: datagrams not yet received,
                \*                waker: a readiness wakeup is registered]
    delay,      \* the Sleep: [deadline: ms since started, armed: a timer wakeup is registered]
    now,        \* started.elapsed().as_millis()
    limit,      \* the DatagramLimitInfo
    stats,      \* the sink the receiver is bound to
    sinks,      \* the counters of every sink
    arrived,    \* every datagram the network handed to the endpoint, in order
    delivered,  \* every datagram the endpoint returned to the receiver, in order
    emitted,    \* every datagram the receiver returned to its caller, in order
    woken,      \* the caller has a wakeup (or a completed result) to act on
    callerBuf,  \* the buffer length of a caller that always polls with the same one (0: any)
    receipts    \* when kept: the instant of every datagram returned to the caller (at),
                \* and whether the caller has polled in the current millisecond (polled)

vars ==
    <<inner, delay, now, limit, stats, sinks, arrived, delivered, emitted, woken, callerBuf,
      receipts>>

\* ---------------------------------------------------------------- bounds

MaxTime == 4
MaxDatagrams == 2
MaxBatch == 2

\* <<shift_millis, max_packets, max_bytes>>: not set, no cap, a packet cap, a byte cap
Configs == {<<0, 1, 2>>, <<1, 0, 0>>, <<1, 2, 0>>, <<2, 0, 2>>}
BufLens == {1, 3}
\* <<len, addr>>: an empty datagram and a two-byte datagram, from two peers
Datagrams == {<<0, "a1">>, <<2, "a2">>}
IoErrors == {"e1", "e2"}
Sinks == {"A", "B"}

\* ---------------------------------------------------------------- values

Min(a, b) == IF a <= b THEN a ELSE b

RECURSIVE SumLens(_, _)
\* the sum of the first k lengths of a sequence of lengths
SumLens(s, k) == IF k = 0 THEN 0 ELSE s[k] + SumLens(s, k - 1)

SubSeqTo(s, k) == [i \in 1..k |-> s[i]]

NoAddr == "-"
UNSPECIFIED == "0.0.0.0:0"
NoErr == "-"

\* Poll<io::Result<..>>: kind is Pending, Err or Ok; n is the byte count (the
\* slot count of a batch); dgs are the datagrams it carries, one per slot.
PollPending == [kind |-> "Pending", n |-> 0, addr |-> NoAddr, err |-> NoErr, dgs |-> <<>>]
PollErr(e) == [kind |-> "Err", n |-> 0, addr |-> NoAddr, err |-> e, dgs |-> <<>>]
PollOk(n, addr, dgs) == [kind |-> "Ok", n |-> n, addr |-> addr, err |-> NoErr, dgs |-> dgs]

\* DatagramLimitResult
Advance(n) == [kind |-> "Advance", n |-> n, ms |-> 0]
DelayFor(ms) == [kind |-> "DelayFor", n |-> 0, ms |-> ms]

\* ---------------------------------------------------------------- DatagramLimitInfo

DatagramLimitInfo_new(shift_millis, max_packets, max_bytes) ==
    [shift_millis |-> shift_millis, max_packets |-> max_packets, max_bytes |-> max_bytes,
     window_index |-> 0, packets_in_window |-> 0, bytes_in_window |-> 0]

is_set(lim) == lim.shift_millis > 0

\* w = elapsed_ms >> shift_bits; a new window zeroes both counters
Rollover(lim, elapsed_ms) ==
    LET w == elapsed_ms \div (2 ^ lim.shift_millis)
    IN  IF w # lim.window_index
        THEN [lim EXCEPT !.window_index = w, !.packets_in_window = 0, !.bytes_in_window = 0]
        ELSE lim

\* both caps, a zero cap being unconstrained
Fits(lim, packets, bytes) ==
    /\ (lim.max_packets = 0 \/ packets <= lim.max_packets)
    /\ (lim.max_bytes = 0 \/ bytes <= lim.max_bytes)

ms_until_next_window(lim, elapsed_ms) ==
    ((lim.window_index + 1) * (2 ^ lim.shift_millis)) - elapsed_ms

\* [limit: the window state after the check, res: Advance(1) or DelayFor(ms)]
check_packet(lim, elapsed_ms, buf_size) ==
    LET l == Rollover(lim, elapsed_ms)
    IN  [limit |-> l,
         res |-> IF Fits(l, l.packets_in_window + 1, l.bytes_in_window + buf_size)
                 THEN Advance(1)
                 ELSE DelayFor(ms_until_next_window(l, elapsed_ms))]

\* the longest prefix of the buffers that fits, by their declared lengths
check_packets(lim, elapsed_ms, bufs) ==
    LET l == Rollover(lim, elapsed_ms)
        ok(i) == \A j \in 1..i :
                    Fits(l, l.packets_in_window + j, l.bytes_in_window + SumLens(bufs, j))
        n == CHOOSE i \in 0..Len(bufs) : ok(i) /\ (i = Len(bufs) \/ ~ok(i + 1))
    IN  [limit |-> l,
         res |-> IF n > 0 THEN Advance(n) ELSE DelayFor(ms_until_next_window(l, elapsed_ms))]

set_advance(lim, packets, size) ==
    [lim EXCEPT !.packets_in_window = @ + packets, !.bytes_in_window = @ + size]

\* ---------------------------------------------------------------- the endpoint (inner: T)

Fails == {NoErr} \cup IoErrors

\* A datagram read into a buffer of buf_len bytes: the bytes beyond it are cut.
RecvLen(d, buf_len) == Min(d.len, buf_len)

\* inner.poll_recv_from: an error, pending on an empty queue, or the head datagram
inner_poll_recv_from(queue, buf_len, fail) ==
    IF fail # NoErr THEN PollErr(fail)
    ELSE IF queue = <<>> THEN PollPending
    ELSE LET d == Head(queue)
         IN  PollOk(RecvLen(d, buf_len), d.addr, <<[id |-> d.id, len |-> RecvLen(d, buf_len)]>>)

\* inner.poll_recv: the same on a connected socket, without the source address
inner_poll_recv(queue, buf_len, fail) ==
    IF fail # NoErr THEN PollErr(fail)
    ELSE IF queue = <<>> THEN PollPending
    ELSE LET d == Head(queue)
         IN  PollOk(RecvLen(d, buf_len), NoAddr, <<[id |-> d.id, len |-> RecvLen(d, buf_len)]>>)

\* inner.poll_batch_recvmsg: fills the first count slots, meta[i].len = dgs[i].len
inner_poll_batch_recvmsg(queue, bufs, count, fail) ==
    IF fail # NoErr THEN PollErr(fail)
    ELSE IF queue = <<>> \/ bufs = <<>> THEN PollPending
    ELSE PollOk(count, NoAddr,
                [i \in 1..count |-> [id |-> queue[i].id, len |-> RecvLen(queue[i], bufs[i])]])

\* the counts a batch call on this queue and these slots can return
BatchCounts(queue, bufs) ==
    IF queue = <<>> \/ bufs = <<>> THEN {0} ELSE 1..Min(Len(queue), Len(bufs))

\* what the endpoint can do with a batch: fill some of the slots, or fail
BatchFills(queue, bufs, fails) ==
    {<<count, NoErr>> : count \in BatchCounts(queue, bufs)} \cup {<<0, e>> : e \in fails \ {NoErr}}

\* ---------------------------------------------------------------- the stats sink

NoStats == [packets |-> 0, bytes |-> 0]

add_recv_packet(sk, s) == [sk EXCEPT ![s].packets = @ + 1]
add_recv_packets(sk, s, n) == [sk EXCEPT ![s].packets = @ + n]
add_recv_bytes(sk, s, size) == [sk EXCEPT ![s].bytes = @ + size]

\* ---------------------------------------------------------------- the Sleep

\* sleep_new with the timer already polled and registered
sleep_new_registered == [deadline |-> 0, armed |-> TRUE]

\* Box::pin(tokio::time::sleep(Duration::from_millis(0))): created, not yet polled
sleep_new == [deadline |-> 0, armed |-> FALSE]

\* Sleep::poll at instant t: ready once the deadline is reached
sleep_poll(deadline, t) == IF deadline <= t THEN "Ready" ELSE "Pending"

\* ---------------------------------------------------------------- LimitedUdpRecv

\* What one poll does: the window state and the counters it leaves, the path it
\* took, the admission result, the slots it passed to the endpoint and the
\* endpoint's results (none or one), the timer it leaves and the result it returns.
Outcome(lim, sk, path, pre, chk, slots, ep, dl, res) ==
    [limit |-> lim, sinks |-> sk, path |-> path,
     rolled |-> (chk.limit # pre), adm |-> chk.res, checked |-> chk.limit,
     slots |-> slots, ep |-> ep, delay |-> dl, res |-> res]

NoCheck(lim) == [limit |-> lim, res |-> Advance(0)]

\* elapsed_millis reading whole seconds
elapsed_secs(t) == t \div 1000

\* self.started.elapsed().as_millis() as u64, at instant t
elapsed_millis(t) == t

\* recv_not_ready accounting a packet although nothing was received
recv_not_ready_counted(lim, sk) ==
    [limit |-> set_advance(lim, 1, 0), sinks |-> [s \in DOMAIN sk |-> add_recv_packet(sk, s)[s]]]

\* ready!(..)? returned early: set_advance and the stats calls are not reached
recv_not_ready(lim, sk) == [limit |-> lim, sinks |-> sk]

\* delayed accounting a packet for the synthetic result
delayed_counted(lim, sk) ==
    [limit |-> set_advance(lim, 1, 0), sinks |-> [s \in DOMAIN sk |-> add_recv_packet(sk, s)[s]]]

\* the DelayFor arm calls neither set_advance nor the stats sink
delayed(lim, sk) == [limit |-> lim, sinks |-> sk]

\* recv_done without set_advance
recv_done_stats_only(lim, sk, s, nr) ==
    [limit |-> lim, sinks |-> add_recv_bytes(add_recv_packet(sk, s), s, nr)]

\* recv_done crediting a fixed sink instead of the bound one
recv_done_first_sink(lim, sk, s, nr) ==
    [limit |-> set_advance(lim, 1, nr),
     sinks |-> add_recv_bytes(add_recv_packet(sk, "A"), "A", nr)]

\* after a single receive on the Advance path
recv_done(lim, sk, s, nr) ==
    [limit |-> set_advance(lim, 1, nr), sinks |-> add_recv_bytes(add_recv_packet(sk, s), s, nr)]

\* recv_done_unlimited without add_recv_packet
recv_done_unlimited_bytes_only(sk, s, nr) == add_recv_bytes(sk, s, nr)

\* after a single receive with the limit not set
recv_done_unlimited(sk, s, nr) == add_recv_bytes(add_recv_packet(sk, s), s, nr)

\* let len = meta.iter().take(count).map(|h| h.len).sum()
meta_len(meta, count) == SumLens([i \in 1..Len(meta) |-> meta[i].len], Min(count, Len(meta)))

\* batch_done accounting one packet, as the single receives do
batch_done_one_packet(lim, sk, s, meta, count) ==
    [limit |-> set_advance(lim, 1, meta_len(meta, count)),
     sinks |-> add_recv_bytes(add_recv_packet(sk, s), s, meta_len(meta, count))]

\* after a batch receive on the Advance path
batch_done(lim, sk, s, meta, count) ==
    [limit |-> set_advance(lim, count, meta_len(meta, count)),
     sinks |-> add_recv_bytes(add_recv_packets(sk, s, count), s, meta_len(meta, count))]

\* after a batch receive with the limit not set
batch_done_unlimited(sk, s, meta, count) ==
    add_recv_bytes(add_recv_packets(sk, s, count), s, meta_len(meta, count))

\* ready_from returning the placeholder address
ready_from_unspecified(r) == PollOk(r.n, UNSPECIFIED, r.dgs)

\* Poll::Ready(Ok((nr, addr)))
ready_from(r) == PollOk(r.n, r.addr, r.dgs)

\* Poll::Ready(Ok(nr))
ready_recv(r) == PollOk(r.n, NoAddr, r.dgs)

\* ready_batch handing the filled slots back in the opposite order
ready_batch_reversed(r) ==
    PollOk(r.n, NoAddr, [i \in 1..Len(r.dgs) |-> r.dgs[Len(r.dgs) + 1 - i]])

\* Poll::Ready(Ok(count))
ready_batch(r) == PollOk(r.n, NoAddr, r.dgs)

\* not_ready turning an error into an empty receive
not_ready_swallowed(r) == IF r.kind = "Err" THEN PollOk(0, NoAddr, <<>>) ELSE r

\* ready!(..)?: pending and the error are returned as they are
not_ready(r) == r

\* batch_slots passing every slot of the caller
batch_slots_all(bufs, n) == bufs

\* &mut bufs[0..n]
batch_slots(bufs, n) == SubSeqTo(bufs, n)

\* delay_deadline without the elapsed time
delay_deadline_from_start(dur_millis, ms) == ms

\* self.started + Duration::from_millis(dur_millis + ms), as ms since started
delay_deadline(dur_millis, ms) == dur_millis + ms

\* delay_reset without the poll that registers the timer wakeup
delay_reset_unpolled(deadline, t) == [deadline |-> deadline, armed |-> FALSE]

\* self.delay.as_mut().reset(deadline), polled at instant t: a pending poll
\* registers the timer wakeup
delay_reset(deadline, t) ==
    [deadline |-> deadline, armed |-> (sleep_poll(deadline, t) = "Pending")]

\* self.delay.poll_unpin(cx).map(|_| Ok(..)): the timer's poll decides the result
delay_result(deadline, t, addr) ==
    IF sleep_poll(deadline, t) = "Ready" THEN PollOk(0, addr, <<>>) ELSE PollPending

poll_recv_from(buf_len, fail) ==
    IF is_set(limit)
    THEN LET dur_millis == elapsed_millis(now)
             chk == check_packet(limit, dur_millis, buf_len)
         IN  IF chk.res.kind = "Advance"
             THEN LET r == inner_poll_recv_from(inner.queue, buf_len, fail)
                      done == recv_done(chk.limit, sinks, stats, r.n)
                  IN  IF r.kind = "Ok"
                      THEN Outcome(done.limit, done.sinks, "advance", limit, chk, <<buf_len>>,
                                   <<r>>, delay, ready_from(r))
                      ELSE Outcome(recv_not_ready(chk.limit, sinks).limit,
                                   recv_not_ready(chk.limit, sinks).sinks,
                                   "advance", limit, chk, <<buf_len>>, <<r>>,
                                   delay, not_ready(r))
             ELSE LET deadline == delay_deadline(dur_millis, chk.res.ms)
                  IN  Outcome(delayed(chk.limit, sinks).limit, delayed(chk.limit, sinks).sinks,
                              "delay", limit, chk, <<>>, <<>>,
                              delay_reset(deadline, now),
                              delay_result(deadline, now, UNSPECIFIED))
    ELSE LET r == inner_poll_recv_from(inner.queue, buf_len, fail)
         IN  IF r.kind = "Ok"
             THEN Outcome(limit, recv_done_unlimited(sinks, stats, r.n), "unlimited", limit,
                          NoCheck(limit), <<buf_len>>, <<r>>, delay, ready_from(r))
             ELSE Outcome(recv_not_ready(limit, sinks).limit, recv_not_ready(limit, sinks).sinks,
                          "unlimited", limit, NoCheck(limit), <<buf_len>>, <<r>>,
                          delay, not_ready(r))

poll_recv(buf_len, fail) ==
    IF is_set(limit)
    THEN LET dur_millis == elapsed_millis(now)
             chk == check_packet(limit, dur_millis, buf_len)
         IN  IF chk.res.kind = "Advance"
             THEN LET r == inner_poll_recv(inner.queue, buf_len, fail)
                      done == recv_done(chk.limit, sinks, stats, r.n)
                  IN  IF r.kind = "Ok"
                      THEN Outcome(done.limit, done.sinks, "advance", limit, chk, <<buf_len>>,
                                   <<r>>, delay, ready_recv(r))
                      ELSE Outcome(recv_not_ready(chk.limit, sinks).limit,
                                   recv_not_ready(chk.limit, sinks).sinks,
                                   "advance", limit, chk, <<buf_len>>, <<r>>,
                                   delay, not_ready(r))
             ELSE LET deadline == delay_deadline(dur_millis, chk.res.ms)
                  IN  Outcome(delayed(chk.limit, sinks).limit, delayed(chk.limit, sinks).sinks,
                              "delay", limit, chk, <<>>, <<>>,
                              delay_reset(deadline, now),
                              delay_result(deadline, now, NoAddr))
    ELSE LET r == inner_poll_recv(inner.queue, buf_len, fail)
         IN  IF r.kind = "Ok"
             THEN Outcome(limit, recv_done_unlimited(sinks, stats, r.n), "unlimited", limit,
                          NoCheck(limit), <<buf_len>>, <<r>>, delay, ready_recv(r))
             ELSE Outcome(recv_not_ready(limit, sinks).limit, recv_not_ready(limit, sinks).sinks,
                          "unlimited", limit, NoCheck(limit), <<buf_len>>, <<r>>,
                          delay, not_ready(r))

\* count: how many slots the endpoint fills if it has datagrams
poll_batch_recvmsg(bufs, count, fail) ==
    IF is_set(limit)
    THEN LET dur_millis == elapsed_millis(now)
             chk == check_packets(limit, dur_millis, bufs)
         IN  IF chk.res.kind = "Advance"
             THEN LET slots == batch_slots(bufs, chk.res.n)
                      r == inner_poll_batch_recvmsg(inner.queue, slots,
                                                    Min(count, Len(slots)), fail)
                      done == batch_done(chk.limit, sinks, stats, r.dgs, r.n)
                  IN  IF r.kind = "Ok"
                      THEN Outcome(done.limit, done.sinks, "advance", limit, chk, slots, <<r>>,
                                   delay, ready_batch(r))
                      ELSE Outcome(recv_not_ready(chk.limit, sinks).limit,
                                   recv_not_ready(chk.limit, sinks).sinks,
                                   "advance", limit, chk, slots, <<r>>,
                                   delay, not_ready(r))
             ELSE LET deadline == delay_deadline(dur_millis, chk.res.ms)
                  IN  Outcome(delayed(chk.limit, sinks).limit, delayed(chk.limit, sinks).sinks,
                              "delay", limit, chk, <<>>, <<>>,
                              delay_reset(deadline, now),
                              delay_result(deadline, now, NoAddr))
    ELSE LET r == inner_poll_batch_recvmsg(inner.queue, bufs, count, fail)
         IN  IF r.kind = "Ok"
             THEN Outcome(limit, batch_done_unlimited(sinks, stats, r.dgs, r.n), "unlimited",
                          limit, NoCheck(limit), bufs, <<r>>, delay,
                          ready_batch(r))
             ELSE Outcome(recv_not_ready(limit, sinks).limit, recv_not_ready(limit, sinks).sinks,
                          "unlimited", limit, NoCheck(limit), bufs, <<r>>,
                          delay, not_ready(r))

\* ---------------------------------------------------------------- the steps

\* the buffer lengths the caller polls with
CallerLens == IF callerBuf = 0 THEN BufLens ELSE {callerBuf}

\* the slot arrays the caller offers to a batch receive
CallerBufs == UNION {[1..k -> CallerLens] : k \in 1..MaxBatch}

\* the receipts of a run that does not keep them
NoReceipts == [kept |-> FALSE, at |-> <<>>, polled |-> FALSE]

\* One poll of the receiver, with everything it changes.
Commit(op, bufs, o) ==
    LET got == IF o.ep # <<>> /\ o.ep[1].kind = "Ok" THEN o.ep[1].dgs ELSE <<>>
    IN  /\ limit' = o.limit
        /\ sinks' = o.sinks
        /\ delay' = o.delay
        /\ inner' = [queue |-> SubSeq(inner.queue, Len(got) + 1, Len(inner.queue)),
                     waker |-> IF o.ep = <<>> THEN inner.waker ELSE o.ep[1].kind = "Pending"]
        /\ delivered' = delivered \o got
        /\ emitted' = emitted \o o.res.dgs
        /\ woken' = (o.res.kind # "Pending")
        /\ receipts' = IF receipts.kept
                       THEN [receipts EXCEPT
                                !.at = @ \o [i \in 1..Len(o.res.dgs) |-> now],
                                !.polled = TRUE]
                       ELSE receipts
        /\ UNCHANGED <<now, stats, arrived, callerBuf>>

\* the polls of each operation, the endpoint failing with one of fails or not at all
RecvFromPolls(fails) ==
    \E buf_len \in CallerLens, fail \in fails :
        Commit("poll_recv_from", <<buf_len>>, poll_recv_from(buf_len, fail))

RecvPolls(fails) ==
    \E buf_len \in CallerLens, fail \in fails :
        Commit("poll_recv", <<buf_len>>, poll_recv(buf_len, fail))

BatchRecvmsgPolls(fails) ==
    \E bufs \in CallerBufs :
        \E f \in BatchFills(inner.queue, bufs, fails) :
            Commit("poll_batch_recvmsg", bufs, poll_batch_recvmsg(bufs, f[1], f[2]))

\* a caller that polls whenever it likes
PollRecvFrom == RecvFromPolls(Fails)

PollRecv == RecvPolls(Fails)

PollBatchRecvmsg == BatchRecvmsgPolls(Fails)

\* LimitedUdpRecv::reset_stats
ResetStats ==
    \E s \in Sinks :
        /\ stats' = s
        /\ UNCHANGED <<inner, delay, now, limit, sinks, arrived, delivered, emitted,
                       woken, callerBuf, receipts>>

\* a datagram reaches the socket, at most max of them; a registered readiness
\* wakeup fires
Arrivals(max) ==
    \E dg \in Datagrams :
        /\ Len(arrived) < max
        /\ LET d == [id |-> Len(arrived) + 1, len |-> dg[1], addr |-> dg[2]]
           IN  /\ arrived' = Append(arrived, d)
               /\ inner' = [queue |-> Append(inner.queue, d), waker |-> FALSE]
        /\ woken' = (woken \/ inner.waker)
        /\ UNCHANGED <<delay, now, limit, stats, sinks, delivered, emitted, callerBuf, receipts>>

Arrive == Arrivals(MaxDatagrams)

\* one millisecond passes
Tick ==
    /\ now < MaxTime
    /\ now' = now + 1
    /\ UNCHANGED <<inner, delay, limit, stats, sinks, arrived, delivered, emitted,
                   woken, callerBuf, receipts>>

\* the armed timer reaches its deadline and wakes the caller
TimerFire ==
    /\ delay.armed
    /\ delay.deadline <= now
    /\ delay' = [delay EXCEPT !.armed = FALSE]
    /\ woken' = TRUE
    /\ UNCHANGED <<inner, now, limit, stats, sinks, arrived, delivered, emitted,
                   callerBuf, receipts>>

\* LimitedUdpRecv::new, for each configuration
Init ==
    /\ inner = [queue |-> <<>>, waker |-> FALSE]
    /\ delay = sleep_new
    /\ now = 0
    /\ \E c \in Configs : limit = DatagramLimitInfo_new(c[1], c[2], c[3])
    /\ stats = "A"
    /\ sinks = [s \in Sinks |-> NoStats]
    /\ arrived = <<>>
    /\ delivered = <<>>
    /\ emitted = <<>>
    /\ woken = TRUE
    /\ callerBuf = 0
    /\ receipts = NoReceipts

\* the receive operations, the network and the clock
Next ==
    \/ PollRecvFrom
    \/ PollRecv
    \/ PollBatchRecvmsg
    \/ Arrive
    \/ Tick
    \/ TimerFire

Spec == Init /\ [][Next]_vars

\* a receiver that is not set and one with a packet cap
RebindConfigs == {<<0, 1, 2>>, <<1, 2, 0>>}

RebindInit == Init /\ \E c \in RebindConfigs : limit = DatagramLimitInfo_new(c[1], c[2], c[3])

\* the same with the sink rebound at any point
RebindNext ==
    \/ PollRecvFrom
    \/ PollRecv
    \/ PollBatchRecvmsg
    \/ ResetStats
    \/ Arrive
    \/ Tick
    \/ TimerFire

RebindSpec == RebindInit /\ [][RebindNext]_vars

\* ---------------------------------------------------------------- DirectUdpConnectRemoteRecv

\* UdpCopyRemoteError::RecvFailed(e)
RecvFailed(e) == <<"RecvFailed", e>>

\* Poll<Result<.., UdpCopyRemoteError>>: off and n are the offset and the length
\* of poll_recv_packet, n is the count of poll_recv_packets
RemotePending == [kind |-> "Pending", off |-> 0, n |-> 0, err |-> NoErr]
RemoteErr(e) == [kind |-> "Err", off |-> 0, n |-> 0, err |-> e]
RemoteOk(off, n) == [kind |-> "Ok", off |-> off, n |-> n, err |-> NoErr]

\* ready!(..).map_err(UdpCopyRemoteError::RecvFailed)?
map_err_RecvFailed(r) ==
    IF r.kind = "Pending" THEN RemotePending
    ELSE IF r.kind = "Err" THEN RemoteErr(RecvFailed(r.err))
    ELSE RemoteOk(0, r.n)

\* DirectUdpConnectRemoteRecv::poll_recv_packet: inner is the poll of the wrapped
\* receiver, calls the calls made to it
poll_recv_packet(buf_len, fail) ==
    LET o == poll_recv(buf_len, fail)
    IN  [inner |-> o,
         calls |-> <<[op |-> "poll_recv", bufs |-> <<buf_len>>]>>,
         res |-> map_err_RecvFailed(o.res),
         packets |-> <<>>]

\* UdpCopyPacket: the length of its buffer, and the offset and the length of the
\* packet in it
UdpCopyPacket(buf_len, offset, length) ==
    [buf_len |-> buf_len, offset |-> offset, length |-> length]

\* packets.iter_mut().map(|p| RecvMsgBuf::new(p.buf_mut())).collect()
packet_bufs(packets) == [i \in 1..Len(packets) |-> packets[i].buf_len]

\* vec![RecvMsgHdr::default(); packets.len()], as the wrapped receiver leaves it:
\* the length of each of the headers it filled
packet_meta(packets, r) ==
    [i \in 1..Len(packets) |-> IF r.kind = "Ok" /\ i <= Len(r.dgs) THEN r.dgs[i].len ELSE 0]

\* set_packets going over every packet, whatever the count
set_packets_all(packets, meta, count) ==
    [i \in 1..Len(packets) |-> [packets[i] EXCEPT !.offset = 0, !.length = meta[i]]]

\* for (p, m) in packets.iter_mut().take(count).zip(meta)
set_packets(packets, meta, count) ==
    [i \in 1..Len(packets) |->
        IF i <= count /\ i <= Len(meta)
        THEN [packets[i] EXCEPT !.offset = 0, !.length = meta[i]]
        ELSE packets[i]]

\* DirectUdpConnectRemoteRecv::poll_recv_packets
poll_recv_packets(packets, count, fail) ==
    LET bufs == packet_bufs(packets)
        o == poll_batch_recvmsg(bufs, count, fail)
    IN  [inner |-> o,
         calls |-> <<[op |-> "poll_batch_recvmsg", bufs |-> bufs]>>,
         res |-> map_err_RecvFailed(o.res),
         packets |-> IF o.res.kind = "Ok"
                     THEN set_packets(packets, packet_meta(packets, o.res), o.res.n)
                     ELSE packets]

\* the offset and the length a packet of the caller holds before the poll: a
\* fresh one, and one left from an earlier use
PriorSlots == {<<0, 0>>, <<1, 1>>}

\* the packet arrays the caller offers
CallerPackets ==
    UNION {[1..k -> {UdpCopyPacket(l, p[1], p[2]) : l \in CallerLens, p \in PriorSlots}] :
             k \in 1..MaxBatch}

\* the copy engine polls the adapter for one packet
RemoteRecvPacket ==
    \E buf_len \in CallerLens, fail \in Fails :
        Commit("poll_recv", <<buf_len>>, poll_recv_packet(buf_len, fail).inner)

\* the copy engine polls the adapter for a batch
RemoteRecvPackets ==
    \E packets \in CallerPackets :
        \E f \in BatchFills(inner.queue, packet_bufs(packets), Fails) :
            Commit("poll_batch_recvmsg", packet_bufs(packets),
                   poll_recv_packets(packets, f[1], f[2]).inner)

\* the adapter over a receiver that is not set and over one with a packet cap
RemoteInit == RebindInit

\* the receiver behind the adapter
RemoteNext ==
    \/ RemoteRecvPacket
    \/ RemoteRecvPackets
    \/ Arrive
    \/ Tick
    \/ TimerFire

RemoteSpec == RemoteInit /\ [][RemoteNext]_vars

\* ---------------------------------------------------------------- receipts over time

\* one packet a window, with no byte cap and with a byte cap of one; one byte a
\* window with no packet cap
BurstConfigs == {<<1, 1, 0>>, <<1, 1, 1>>, <<1, 0, 1>>}

\* LimitedUdpRecv::new, the instant of every receipt being kept
BurstInit ==
    /\ inner = [queue |-> <<>>, waker |-> FALSE]
    /\ delay = sleep_new
    /\ now = 0
    /\ \E c \in BurstConfigs : limit = DatagramLimitInfo_new(c[1], c[2], c[3])
    /\ stats = "A"
    /\ sinks = [s \in Sinks |-> NoStats]
    /\ arrived = <<>>
    /\ delivered = <<>>
    /\ emitted = <<>>
    /\ woken = TRUE
    /\ callerBuf = 0
    /\ receipts = [kept |-> TRUE, at |-> <<>>, polled |-> FALSE]

\* the endpoint does not fail
BurstRecvFrom == RecvFromPolls({NoErr})

BurstRecv == RecvPolls({NoErr})

BurstBatchRecvmsg == BatchRecvmsgPolls({NoErr})

\* one datagram more than two windows admit under a cap of one
BurstArrive == Arrivals(MaxDatagrams + 1)

BurstNext ==
    \/ BurstRecvFrom
    \/ BurstRecv
    \/ BurstBatchRecvmsg
    \/ BurstArrive
    \/ Tick
    \/ TimerFire

BurstSpec == BurstInit /\ [][BurstNext]_vars

\* ---------------------------------------------------------------- scenario S1

\* <<shift_millis, max_packets, max_bytes>> of the scenario: windows of 8 ms,
\* two packets a window, no byte cap
S1Config == <<3, 2, 0>>

\* the datagrams queued at the endpoint at the start, and the length of each
S1Datagrams == 5
S1Len == 100

\* the buffers the caller polls with: what a datagram needs, and more
S1BufLens == {S1Len, S1Len + 28}

\* the end of the third window
S1End == 3 * 2 ^ S1Config[1]

S1Queue == [i \in 1..S1Datagrams |-> [id |-> i, len |-> S1Len, addr |-> "a1"]]

\* LimitedUdpRecv::new, the datagrams queued, the instant of every receipt kept
S1Init ==
    /\ inner = [queue |-> S1Queue, waker |-> FALSE]
    /\ delay = sleep_new
    /\ now = 0
    /\ limit = DatagramLimitInfo_new(S1Config[1], S1Config[2], S1Config[3])
    /\ stats = "A"
    /\ sinks = [s \in Sinks |-> NoStats]
    /\ arrived = S1Queue
    /\ delivered = <<>>
    /\ emitted = <<>>
    /\ woken = TRUE
    /\ callerBuf = 0
    /\ receipts = [kept |-> TRUE, at |-> <<>>, polled |-> FALSE]

\* the caller polls poll_recv, the endpoint does not fail
S1Recv ==
    \E buf_len \in S1BufLens :
        Commit("poll_recv", <<buf_len>>, poll_recv(buf_len, NoErr))

\* one millisecond passes, the caller having polled in it
S1Tick ==
    /\ now < S1End
    /\ receipts.polled
    /\ now' = now + 1
    /\ receipts' = [receipts EXCEPT !.polled = FALSE]
    /\ UNCHANGED <<inner, delay, limit, stats, sinks, arrived, delivered, emitted,
                   woken, callerBuf>>

S1Next ==
    \/ S1Recv
    \/ S1Tick
    \/ TimerFire

S1Spec == S1Init /\ [][S1Next]_vars

\* ---------------------------------------------------------------- the re-polling caller

\* the caller polls only with a wakeup (or a completed result) in hand, and the
\* endpoint does not fail
RepollRecvFrom == woken /\ RecvFromPolls({NoErr})

RepollRecv == woken /\ RecvPolls({NoErr})

RepollBatchRecvmsg == woken /\ BatchRecvmsgPolls({NoErr})

\* the length of a window, in ms
WindowMillis == IF is_set(limit) THEN 2 ^ limit.shift_millis ELSE 1

\* The clock, the window index and the deadline counted from a later origin, a
\* whole number of windows (windows of them) after the earlier one.  A window
\* index before the origin becomes -1, a deadline before it 0: both are in the
\* past of every instant that follows.
Rebased(t, windows) ==
    [now |-> t - windows * WindowMillis,
     limit |-> IF is_set(limit)
               THEN [limit EXCEPT !.window_index =
                                     IF @ >= windows THEN @ - windows ELSE -1]
               ELSE limit,
     delay |-> [delay EXCEPT !.deadline =
                                IF @ >= windows * WindowMillis
                                THEN @ - windows * WindowMillis ELSE 0]]

\* One millisecond passes, without end: past MaxTime the origin moves to the
\* start of the current window.
Elapse ==
    /\ LET t == now + 1
           r == IF t <= MaxTime THEN Rebased(t, 0) ELSE Rebased(t, t \div WindowMillis)
       IN  /\ now' = r.now
           /\ limit' = r.limit
           /\ delay' = r.delay
    /\ UNCHANGED <<inner, stats, sinks, arrived, delivered, emitted, woken, callerBuf, receipts>>

\* limited receivers: no cap, one packet a window, one byte a window, two bytes
\* a longer window
RepollConfigs == {<<1, 0, 0>>, <<1, 1, 0>>, <<1, 0, 1>>, <<2, 0, 2>>}

\* LimitedUdpRecv::new, the caller keeping one buffer length
RepollInit ==
    /\ inner = [queue |-> <<>>, waker |-> FALSE]
    /\ delay = sleep_new
    /\ now = 0
    /\ \E c \in RepollConfigs : limit = DatagramLimitInfo_new(c[1], c[2], c[3])
    /\ stats = "A"
    /\ sinks = [s \in Sinks |-> NoStats]
    /\ arrived = <<>>
    /\ delivered = <<>>
    /\ emitted = <<>>
    /\ woken = TRUE
    /\ callerBuf \in BufLens
    /\ receipts = NoReceipts

RepollNext ==
    \/ RepollRecvFrom
    \/ RepollRecv
    \/ RepollBatchRecvmsg
    \/ Arrive
    \/ Elapse
    \/ TimerFire

\* time advances, a due timer fires, and a woken caller polls
FairSpec ==
    /\ RepollInit
    /\ [][RepollNext]_vars
    /\ WF_vars(Elapse)
    /\ WF_vars(TimerFire)
    /\ WF_vars(RepollRecvFrom \/ RepollRecv \/ RepollBatchRecvmsg)

\* ---------------------------------------------------------------- properties

\* P(op, bufs, o) of every poll that can be made in this state, o being what it does
EachPoll(P(_, _, _)) ==
    /\ \A buf_len \in CallerLens, fail \in Fails :
          P("poll_recv_from", <<buf_len>>, poll_recv_from(buf_len, fail))
    /\ \A buf_len \in CallerLens, fail \in Fails :
          P("poll_recv", <<buf_len>>, poll_recv(buf_len, fail))
    /\ \A bufs \in CallerBufs :
          \A f \in BatchFills(inner.queue, bufs, Fails) :
              P("poll_batch_recvmsg", bufs, poll_batch_recvmsg(bufs, f[1], f[2]))

\* P(op, bufs, o) of every poll this step can be
EachStep(P(_, _, _)) ==
    /\ \A buf_len \in CallerLens, fail \in Fails :
          Commit("poll_recv_from", <<buf_len>>, poll_recv_from(buf_len, fail))
              => P("poll_recv_from", <<buf_len>>, poll_recv_from(buf_len, fail))
    /\ \A buf_len \in CallerLens, fail \in Fails :
          Commit("poll_recv", <<buf_len>>, poll_recv(buf_len, fail))
              => P("poll_recv", <<buf_len>>, poll_recv(buf_len, fail))
    /\ \A bufs \in CallerBufs :
          \A f \in BatchFills(inner.queue, bufs, Fails) :
              Commit("poll_batch_recvmsg", bufs, poll_batch_recvmsg(bufs, f[1], f[2]))
                  => P("poll_batch_recvmsg", bufs, poll_batch_recvmsg(bufs, f[1], f[2]))

\* P(op, bufs, o) of some poll that can be made in this state
SomePoll(P(_, _, _)) ==
    \/ \E buf_len \in CallerLens, fail \in Fails :
          P("poll_recv_from", <<buf_len>>, poll_recv_from(buf_len, fail))
    \/ \E buf_len \in CallerLens, fail \in Fails :
          P("poll_recv", <<buf_len>>, poll_recv(buf_len, fail))
    \/ \E bufs \in CallerBufs :
          \E f \in BatchFills(inner.queue, bufs, Fails) :
              P("poll_batch_recvmsg", bufs, poll_batch_recvmsg(bufs, f[1], f[2]))

\* the packets and the bytes of an Ok result
PacketsOf(op, res) == IF op = "poll_batch_recvmsg" THEN res.n ELSE 1
BytesOf(op, res) ==
    IF op = "poll_batch_recvmsg"
    THEN SumLens([i \in 1..Len(res.dgs) |-> res.dgs[i].len], Len(res.dgs))
    ELSE res.n

TotalPackets(sk) == sk["A"].packets + sk["B"].packets
TotalBytes(sk) == sk["A"].bytes + sk["B"].bytes
EmittedBytes == SumLens([i \in 1..Len(emitted) |-> emitted[i].len], Len(emitted))

WithinCaps(lim) ==
    /\ (lim.max_packets > 0 => lim.packets_in_window <= lim.max_packets)
    /\ (lim.max_bytes > 0 => lim.bytes_in_window <= lim.max_bytes)

\* C1 of one poll: the counters after its admission check and after its accounting
WindowedRatePoll(op, bufs, o) == is_set(limit) => WithinCaps(o.checked) /\ WithinCaps(o.limit)

PassThroughPoll(op, bufs, o) ==
    ~is_set(limit) =>
        /\ o.path = "unlimited"
        /\ o.slots = bufs
        /\ o.ep = <<o.res>>
        /\ o.delay = delay

\* C2: with shift_millis = 0 every poll returns the endpoint's result of that
\* poll unchanged (datagram length and source address, pending, or the error),
\* never touches the timer, and the datagrams returned are the datagrams the
\* endpoint handed out, one for one and in order.
PassThroughWhenDisabled ==
    /\ ~is_set(limit) => emitted = delivered
    /\ EachPoll(PassThroughPoll)

\* a receiver that is not set has returned two datagrams as the endpoint gave them
PassThroughWitness ==
    /\ ~is_set(limit)
    /\ Len(emitted) = 2
    /\ emitted = delivered
    /\ emitted[2].len = 2
    /\ sinks[stats].packets = 2

\* C3 of one poll: an Ok result credits its packets and its bytes to the bound
\* sink alone; a pending or failed poll credits nothing
StatsPoll(op, bufs, o) ==
    IF o.res.kind = "Ok"
    THEN o.sinks = [sinks EXCEPT ![stats] =
                       [packets |-> @.packets + PacketsOf(op, o.res),
                        bytes |-> @.bytes + BytesOf(op, o.res)]]
    ELSE o.sinks = sinks

\* C3: the bound sink holds exactly the packets and the bytes of the successful
\* receives: one packet and its size for a single receive, the returned count
\* and the sum of the header lengths for a batch; a failed receive adds nothing.
StatsConservation ==
    /\ sinks[stats].packets = Len(emitted)
    /\ sinks[stats].bytes = EmittedBytes
    /\ EachPoll(StatsPoll)

\* two datagrams of one and two bytes were returned and credited to the sink
StatsConservationWitness ==
    /\ sinks[stats].packets = 2
    /\ sinks[stats].bytes = 3
    /\ Len(emitted) = 2
    /\ EmittedBytes = 3

\* C4 as claimed, of one poll: an endpoint error is returned as it is and leaves
\* the window state and the sinks as they were before the call
ErrorLeavesWindowPoll(op, bufs, o) ==
    (o.ep # <<>> /\ o.ep[1].kind = "Err") =>
        /\ o.res = o.ep[1]
        /\ sinks' = sinks
        /\ limit' = limit

\* C4 as claimed
ErrorLeavesWindowUntouched == [][EachStep(ErrorLeavesWindowPoll)]_vars

\* C4 amended, of one poll: the window state is what the admission check left
ErrorTransparencyPoll(op, bufs, o) ==
    (o.ep # <<>> /\ o.ep[1].kind = "Err") =>
        LET w == now \div (2 ^ limit.shift_millis)
        IN  /\ o.res = o.ep[1]
            /\ o.sinks = sinks
            /\ o.delay = delay
            /\ ~is_set(limit) => o.limit = limit
            /\ limit.window_index = w => o.limit = limit
            /\ (is_set(limit) /\ limit.window_index # w) =>
                  o.limit = [limit EXCEPT !.window_index = w, !.packets_in_window = 0,
                                          !.bytes_in_window = 0]

\* C4 (amended): an endpoint error is returned as it is, with no stats update and
\* no accounting; the window state is unchanged when the call is made in the
\* window window_index, and is the new window with zero counters when it is made
\* in a later one.
ErrorTransparency == EachPoll(ErrorTransparencyPoll)

\* a poll in a later window than the stored one, in which a receive was
\* accounted: the endpoint fails and the poll returns its error, having moved
\* to the new window
ErrorAfterRolloverPoll(op, bufs, o) ==
    /\ o.ep # <<>>
    /\ o.ep[1].kind = "Err"
    /\ o.ep[1].err = "e2"
    /\ o.res = o.ep[1]
    /\ o.rolled
    /\ o.limit.packets_in_window = 0

ErrorTransparencyWitness ==
    /\ limit.packets_in_window > 0
    /\ Len(emitted) > 0
    /\ SomePoll(ErrorAfterRolloverPoll)

\* C5 of one poll: the accounting of a limited batch receive that filled k slots
BatchReconciliationPoll(op, bufs, o) ==
    (op = "poll_batch_recvmsg" /\ is_set(limit) /\ o.ep # <<>> /\ o.ep[1].kind = "Ok") =>
        LET k == o.ep[1].n
            bytes == SumLens([i \in 1..k |-> o.ep[1].dgs[i].len], k)
        IN  /\ k <= Len(o.slots)
            /\ o.res.kind = "Ok"
            /\ o.res.n = k
            /\ o.limit.packets_in_window = o.checked.packets_in_window + k
            /\ o.limit.bytes_in_window = o.checked.bytes_in_window + bytes
            /\ o.sinks[stats].packets = sinks[stats].packets + k
            /\ o.sinks[stats].bytes = sinks[stats].bytes + bytes

\* C5: a limited batch receive that admitted n slots of which the endpoint filled
\* k returns k and adds k packets and the sum of the k header lengths to the
\* window counters and to the sink.
BatchReconciliation == EachPoll(BatchReconciliationPoll)

\* after a first receive, a batch poll in the same window is admitted two
\* slots and the endpoint fills one
PartlyFilledPoll(op, bufs, o) ==
    /\ op = "poll_batch_recvmsg"
    /\ ~o.rolled
    /\ Len(o.slots) = 2
    /\ o.res.kind = "Ok"
    /\ o.res.n = 1
    /\ o.limit.packets_in_window = 2

BatchReconciliationWitness ==
    /\ is_set(limit)
    /\ limit.packets_in_window = 1
    /\ Len(emitted) = 1
    /\ SomePoll(PartlyFilledPoll)

\* C6 of one poll: what a limited batch receive passes to the endpoint
BatchAdmissionPoll(op, bufs, o) ==
    (op = "poll_batch_recvmsg" /\ is_set(limit)) =>
        LET n == Len(o.slots)
            fits(j) ==
                /\ (limit.max_packets = 0
                    \/ o.checked.packets_in_window + j <= limit.max_packets)
                /\ (limit.max_bytes = 0
                    \/ o.checked.bytes_in_window + SumLens(bufs, j) <= limit.max_bytes)
        IN  IF fits(1)
            THEN /\ o.path = "advance"
                 /\ n >= 1
                 /\ o.slots = SubSeqTo(bufs, n)
                 /\ \A j \in 1..n : fits(j)
                 /\ (n = Len(bufs) \/ ~fits(n + 1))
                 /\ Len(o.ep) = 1
                 /\ o.ep[1].kind = "Ok" => (o.ep[1].n <= n /\ Len(o.ep[1].dgs) = o.ep[1].n)
                 /\ o.res.kind = "Ok" => o.res.n <= n
                 /\ (limit.max_packets > 0 /\ o.res.kind = "Ok") =>
                        o.res.n <= limit.max_packets - o.checked.packets_in_window
            ELSE /\ o.path = "delay"
                 /\ o.adm.kind = "DelayFor"
                 /\ o.slots = <<>>
                 /\ o.ep = <<>>

\* C6: a limited batch receive passes to the endpoint the longest prefix of the
\* caller's slots that fits both caps by the declared lengths, at least one slot,
\* so that no more than that many slots are filled and, under a packet cap, no
\* more than max_packets - packets_in_window; when the first slot does not fit
\* it takes the delay path and does not call the endpoint.
BatchAdmission == EachPoll(BatchAdmissionPoll)

\* two datagrams wait and two slots are offered, but the byte cap has room for
\* the first slot only: one slot is passed on and filled
PrefixAdmittedPoll(op, bufs, o) ==
    /\ op = "poll_batch_recvmsg"
    /\ Len(bufs) = 2
    /\ Len(o.slots) = 1
    /\ o.res.kind = "Ok"
    /\ o.res.n = 1

BatchAdmissionWitness ==
    /\ is_set(limit)
    /\ limit.max_bytes > 0
    /\ Len(inner.queue) = 2
    /\ SomePoll(PrefixAdmittedPoll)

\* C7 of one poll: the datagrams returned are those the endpoint handed to this
\* poll, in its order, and a delay-path poll takes none from the endpoint
NoReorderPoll(op, bufs, o) ==
    /\ o.path = "delay" => (o.ep = <<>> /\ o.res.dgs = <<>>)
    /\ o.res.dgs = (IF o.ep # <<>> /\ o.ep[1].kind = "Ok" THEN o.ep[1].dgs ELSE <<>>)

\* C7: the datagrams the receiver has returned are, in order, the first datagrams
\* that reached the endpoint; the others are still queued there.
NoReorder ==
    /\ Len(emitted) + Len(inner.queue) = Len(arrived)
    /\ \A i \in 1..Len(emitted) : emitted[i].id = arrived[i].id
    /\ \A i \in 1..Len(inner.queue) : inner.queue[i] = arrived[Len(emitted) + i]
    /\ emitted = delivered
    /\ EachPoll(NoReorderPoll)

\* a limited receiver returned two datagrams in one window, in their order, and
\* the poll that followed was delayed
NoReorderWitness ==
    /\ is_set(limit)
    /\ Len(emitted) = 2
    /\ emitted[1].id = 1
    /\ emitted[2].id = 2
    /\ limit.packets_in_window = 2
    /\ delay.armed
    /\ delay.deadline > now

\* C8 of one poll: what a poll does when its admission check says DelayFor
DelayPathPoll(op, bufs, o) ==
    o.adm.kind = "DelayFor" =>
        /\ o.path = "delay"
        /\ o.ep = <<>>
        /\ o.delay.deadline = now + o.adm.ms
        /\ o.adm.ms > 0 => (o.res = PollPending /\ o.delay.armed)
        /\ o.res.kind # "Err"
        /\ o.res.kind = "Ok" =>
              /\ o.adm.ms = 0
              /\ o.res.n = 0
              /\ o.res.dgs = <<>>
              /\ o.res.addr = (IF op = "poll_recv_from" THEN UNSPECIFIED ELSE NoAddr)

\* C8: on DelayFor(ms) the poll re-arms the timer to elapsed + ms, does not call
\* the endpoint, returns pending when ms > 0, and completes with n = 0 (and the
\* address 0.0.0.0:0 for poll_recv_from) only when ms = 0.
DelayPathResult == EachPoll(DelayPathPoll)

\* a delayed poll returned pending with the timer armed at a later instant
DelayPathWitness ==
    /\ is_set(limit)
    /\ now > 0
    /\ delay.armed
    /\ delay.deadline > now
    /\ delay.deadline = (limit.window_index + 1) * (2 ^ limit.shift_millis)
    /\ ~woken

\* C10 of one poll: only the bound sink is credited
BoundSinkPoll(op, bufs, o) ==
    /\ \A s \in Sinks \ {stats} : o.sinks[s] = sinks[s]
    /\ StatsPoll(op, bufs, o)

\* C10: every receive credits the sink bound when it completes and no other, so
\* that every packet and byte returned is counted in exactly one sink, and
\* reset_stats changes nothing but the binding.
StatsRebinding ==
    /\ [](EachPoll(BoundSinkPoll))
    /\ [](TotalPackets(sinks) = Len(emitted) /\ TotalBytes(sinks) = EmittedBytes)
    /\ [][stats' # stats => UNCHANGED <<inner, delay, now, limit, sinks, arrived, delivered,
                                        emitted, woken>>]_vars

\* a limited receiver counted one datagram in A, was rebound, and counted the
\* next one in B
StatsRebindingWitness ==
    /\ is_set(limit)
    /\ stats = "B"
    /\ sinks["A"] = [packets |-> 1, bytes |-> 2]
    /\ sinks["B"] = [packets |-> 1, bytes |-> 1]
    /\ Len(emitted) = 2

\* the caller's buffer fits a fresh window: no byte cap, or one it does not exceed
FitsFreshWindow == limit.max_bytes = 0 \/ callerBuf <= limit.max_bytes

\* a poll that returns pending has registered the endpoint's readiness wakeup
\* and left the timer alone, or armed the timer and left the endpoint alone
OneWakeupPoll(op, bufs, o) ==
    o.res.kind = "Pending" =>
        \/ /\ o.path # "delay"
           /\ o.ep # <<>> /\ o.ep[1].kind = "Pending"
           /\ o.delay = delay
        \/ /\ o.path = "delay"
           /\ o.ep = <<>>
           /\ o.delay.armed /\ o.delay.deadline > now

\* a waiting caller has exactly one wakeup registered
OneWakeupRegistered == ~woken => (inner.waker # delay.armed)

\* the i-th datagram queued at the endpoint reaches the caller
Received(i) == (Len(arrived) >= i) ~> (Len(emitted) >= i)

WindowOf(lim, t) == t \div (2 ^ lim.shift_millis)

\* C12 of one poll: the window state right after its admission decision
WindowResetPoll(op, bufs, o) ==
    is_set(limit) =>
        /\ o.adm.kind \in {"Advance", "DelayFor"}
        /\ IF WindowOf(limit, now) # limit.window_index
           THEN /\ o.checked.window_index = WindowOf(limit, now)
                /\ o.checked.packets_in_window = 0
                /\ o.checked.bytes_in_window = 0
                /\ o.rolled
           ELSE o.checked = limit /\ ~o.rolled
        /\ o.checked.shift_millis = limit.shift_millis
        /\ o.checked.max_packets = limit.max_packets
        /\ o.checked.max_bytes = limit.max_bytes

\* C12: an admission check made in a window other than window_index sets
\* window_index to that window and leaves both counters at zero, whether it
\* decides Advance or DelayFor; one made in the window window_index leaves
\* window_index and both counters as they were.
WindowReset == EachPoll(WindowResetPoll)

\* a poll in a later window than the stored one, with packets counted in the
\* stored one, is delayed all the same: its buffer is longer than the byte cap
DelayedInNewWindowPoll(op, bufs, o) ==
    /\ o.rolled
    /\ o.adm.kind = "DelayFor"
    /\ o.checked.bytes_in_window = 0

WindowResetWitness ==
    /\ is_set(limit)
    /\ limit.packets_in_window > 0
    /\ limit.bytes_in_window > 0
    /\ WindowOf(limit, now) > limit.window_index
    /\ SomePoll(DelayedInNewWindowPoll)

\* C13 of one poll: nothing is accounted unless the endpoint returned a success
PendingSafePoll(op, bufs, o) ==
    /\ (is_set(limit) /\ o.adm.kind = "Advance" /\ o.ep # <<>> /\ o.ep[1].kind = "Pending") =>
          /\ o.res.kind = "Pending"
          /\ o.limit = o.checked
          /\ o.sinks = sinks
    /\ (o.limit # o.checked \/ o.sinks # sinks) =>
          /\ o.ep # <<>>
          /\ o.ep[1].kind = "Ok"
          /\ o.res.kind = "Ok"

\* C13: a limited receive whose admission check says Advance and whose endpoint
\* is pending returns pending and leaves the window counters as the admission
\* check left them and the sinks as they were; the counters and the sinks change
\* only in a poll whose endpoint call returned a success.
PendingSafety == EachPoll(PendingSafePoll)

\* an admitted poll in a new window finds the endpoint empty
AdmittedPendingPoll(op, bufs, o) ==
    /\ o.adm.kind = "Advance"
    /\ o.rolled
    /\ o.ep # <<>>
    /\ o.ep[1].kind = "Pending"
    /\ o.res.kind = "Pending"

PendingSafetyWitness ==
    /\ is_set(limit)
    /\ limit.packets_in_window > 0
    /\ sinks[stats].packets > 0
    /\ inner.queue = <<>>
    /\ SomePoll(AdmittedPendingPoll)

\* C14 of one poll: a receiver that is not set leaves the timer alone and
\* returns what the endpoint returned
NoTimerPoll(op, bufs, o) ==
    ~is_set(limit) =>
        /\ o.path = "unlimited"
        /\ o.delay = delay
        /\ Len(o.ep) = 1
        /\ (o.res.kind = "Pending") = (o.ep[1].kind = "Pending")
        /\ o.res.kind = "Ok" => (o.ep[1].kind = "Ok" /\ o.res.dgs = o.ep[1].dgs /\ o.res.dgs # <<>>)

\* C14: with shift_millis = 0 the timer is never reset, polled or registered,
\* no receive returns a result the endpoint did not produce, and a receive is
\* pending only when the endpoint is.
NoTimerWhenDisabled ==
    /\ ~is_set(limit) => (~delay.armed /\ delay.deadline = 0 /\ ~ENABLED TimerFire)
    /\ EachPoll(NoTimerPoll)

\* a receiver that is not set returned two datagrams and, later, pending: the
\* endpoint's readiness is the wakeup registered
NoTimerWitness ==
    /\ ~is_set(limit)
    /\ Len(emitted) = 2
    /\ now = MaxTime
    /\ ~woken
    /\ inner.waker
    /\ ~delay.armed

\* C15 of one poll of a set receiver without caps
UnconstrainedPoll(op, bufs, o) ==
    (is_set(limit) /\ limit.max_packets = 0 /\ limit.max_bytes = 0) =>
        /\ o.adm.kind = "Advance"
        /\ o.adm.n = Len(bufs)
        /\ o.path = "advance"
        /\ o.slots = bufs
        /\ Len(o.ep) = 1
        /\ o.delay = delay
        /\ o.ep[1].kind = "Ok" =>
              /\ o.res.kind = "Ok"
              /\ o.limit.packets_in_window =
                     o.checked.packets_in_window + PacketsOf(op, o.res)
              /\ o.limit.bytes_in_window = o.checked.bytes_in_window + BytesOf(op, o.res)
              /\ o.sinks[stats].packets = sinks[stats].packets + PacketsOf(op, o.res)
              /\ o.sinks[stats].bytes = sinks[stats].bytes + BytesOf(op, o.res)

\* C15: with shift_millis > 0 and both caps zero every admission check is
\* Advance, for every slot offered, the delay path is not taken, and every
\* successful receive is added to the window counters and to the sink.
UnconstrainedCaps ==
    /\ (is_set(limit) /\ limit.max_packets = 0 /\ limit.max_bytes = 0) => ~delay.armed
    /\ EachPoll(UnconstrainedPoll)

\* two datagrams, one cut to a one-byte buffer, were received and counted in
\* one window of a set receiver without caps
UnconstrainedCapsWitness ==
    /\ is_set(limit)
    /\ limit.max_packets = 0
    /\ limit.max_bytes = 0
    /\ limit.packets_in_window = 2
    /\ limit.bytes_in_window = 3
    /\ sinks[stats] = [packets |-> 2, bytes |-> 3]

\* C16 of one poll: what it adds to the counters, it adds to the window of the
\* instant it sampled
AttributionPoll(op, bufs, o) ==
    (is_set(limit) /\ o.limit # o.checked) =>
        /\ o.ep # <<>>
        /\ o.ep[1].kind = "Ok"
        /\ o.checked.window_index = WindowOf(limit, now)
        /\ o.limit.window_index = WindowOf(limit, now)
        /\ o.limit = [o.checked EXCEPT
                         !.packets_in_window = @ + PacketsOf(op, o.res),
                         !.bytes_in_window = @ + BytesOf(op, o.res)]
        /\ WindowOf(limit, now) * (2 ^ limit.shift_millis) <= now
        /\ now < (WindowOf(limit, now) + 1) * (2 ^ limit.shift_millis)

\* C16: a receive is added to the counters of the window that contains the
\* elapsed time its poll sampled, and to no other; the counters never belong to
\* a window that has not begun.
WindowAttribution ==
    /\ is_set(limit) => limit.window_index <= WindowOf(limit, now)
    /\ EachPoll(AttributionPoll)

\* one datagram was counted in an earlier window and the next one in the
\* current window, which is not the first
WindowAttributionWitness ==
    /\ is_set(limit)
    /\ limit.max_packets > 0
    /\ limit.window_index > 0
    /\ limit.window_index = WindowOf(limit, now)
    /\ limit.packets_in_window = 1
    /\ Len(emitted) = 2

\* C19 of one poll: the delay its admission check asks for and the deadline armed
DelayRangePoll(op, bufs, o) ==
    o.adm.kind = "DelayFor" =>
        LET w == 2 ^ limit.shift_millis
        IN  /\ 1 <= o.adm.ms
            /\ o.adm.ms <= w
            /\ o.delay.deadline = now + o.adm.ms
            /\ o.delay.deadline = (o.checked.window_index + 1) * w
            /\ o.delay.deadline > now
            /\ o.delay.armed
            /\ \A t \in o.delay.deadline..(MaxTime + w) : \A buf_len \in BufLens :
                  LET again == check_packet(o.limit, elapsed_millis(t), buf_len).limit
                  IN  /\ again.window_index > o.limit.window_index
                      /\ again.packets_in_window = 0
                      /\ again.bytes_in_window = 0

\* C19: every DelayFor(ms) has 1 <= ms <= 2^shift_millis; the deadline armed,
\* elapsed + ms, is the start of the next window and is after the instant the
\* poll sampled, and an admission check made at or after it is in a new window
\* with both counters zero.
DelayRange == EachPoll(DelayRangePoll)

\* a poll in the last millisecond of a window with packets counted is delayed
\* by one millisecond
ShortestDelayPoll(op, bufs, o) == o.adm.kind = "DelayFor" /\ o.adm.ms = 1 /\ ~o.rolled

DelayRangeWitness ==
    /\ is_set(limit)
    /\ limit.shift_millis > 1
    /\ limit.bytes_in_window > 0
    /\ delay.armed
    /\ delay.deadline = now + 1
    /\ SomePoll(ShortestDelayPoll)

\* C20 of one poll: the delay path touches neither the endpoint, nor the
\* counters, nor the sinks; a zero-length Ok that counted a packet is an empty
\* datagram of the endpoint, and one that did not is a delay result
DelayPathFramePoll(op, bufs, o) ==
    /\ o.path = "delay" =>
          /\ o.ep = <<>>
          /\ o.slots = <<>>
          /\ o.limit = o.checked
          /\ o.sinks = sinks
          /\ o.res.dgs = <<>>
          /\ o.res.kind \in {"Pending", "Ok"}
          /\ o.res.kind = "Ok" => o.res.n = 0
    /\ (o.res.kind = "Ok" /\ o.res.n = 0) =>
          IF o.sinks[stats].packets > sinks[stats].packets
          THEN /\ o.path # "delay"
               /\ o.ep # <<>>
               /\ o.ep[1].kind = "Ok"
               /\ Len(o.ep[1].dgs) = 1
               /\ o.ep[1].dgs[1].len = 0
          ELSE o.path = "delay"

\* C20: a limited receive on the delay path does not call the endpoint, does
\* not call set_advance and does not update the sinks: it changes the window
\* state only by the rollover of its admission check, and the timer.  A
\* zero-length result that added a packet to the sink is an empty datagram, one
\* that did not is a delay result.
DelayPathFrame == EachPoll(DelayPathFramePoll)

\* a delayed poll in a new window
DelayedAndRolledPoll(op, bufs, o) == o.path = "delay" /\ o.rolled /\ o.res.kind = "Pending"

\* an empty datagram was received and counted, another datagram waits, and the
\* next poll is delayed
DelayPathFrameWitness ==
    /\ is_set(limit)
    /\ Len(emitted) = 1
    /\ emitted[1].len = 0
    /\ sinks[stats] = [packets |-> 1, bytes |-> 0]
    /\ inner.queue # <<>>
    /\ SomePoll(DelayedAndRolledPoll)

\* the receipts in the interval of one window length that starts at t0
ReceiptsFrom(t0) ==
    {i \in 1..Len(receipts.at) : t0 <= receipts.at[i] /\ receipts.at[i] < t0 + WindowMillis}

\* the packets and the bytes received in that interval
PacketsFrom(t0) == Cardinality(ReceiptsFrom(t0))
BytesFrom(t0) ==
    SumLens([i \in 1..Len(emitted) |-> IF i \in ReceiptsFrom(t0) THEN emitted[i].len ELSE 0],
            Len(emitted))

\* an interval that starts on a window boundary
Aligned(t0) == t0 % WindowMillis = 0

\* C17: the windows tumble: any interval of one window length, aligned to a
\* window boundary or not, holds at most twice max_packets received packets when
\* max_packets > 0 and at most twice max_bytes received bytes when max_bytes > 0;
\* an aligned one holds at most max_packets and max_bytes
BurstBound ==
    \A t0 \in 0..MaxTime :
        /\ limit.max_packets > 0 =>
              PacketsFrom(t0) <= (IF Aligned(t0) THEN 1 ELSE 2) * limit.max_packets
        /\ limit.max_bytes > 0 =>
              BytesFrom(t0) <= (IF Aligned(t0) THEN 1 ELSE 2) * limit.max_bytes

\* twice both caps are received within one interval that straddles a window boundary
BurstBoundWitness ==
    /\ limit.max_packets > 0
    /\ limit.max_bytes > 0
    /\ \E t0 \in 0..MaxTime :
          /\ ~Aligned(t0)
          /\ PacketsFrom(t0) = 2 * limit.max_packets
          /\ BytesFrom(t0) = 2 * limit.max_bytes

\* the datagrams received at an instant in [from, to)
ReceivedIn(from, to) ==
    Cardinality({i \in 1..Len(receipts.at) : from <= receipts.at[i] /\ receipts.at[i] < to})

\* C11: in scenario S1, with the caller polling poll_recv in every millisecond,
\* exactly 2 datagrams are received in [0,8), exactly 2 in [8,16) and exactly 1
\* in [16,24), and the sink ends with 5 packets and 500 bytes
S1Pacing ==
    LET w == 2 ^ S1Config[1]
    IN  /\ now >= w => ReceivedIn(0, w) = 2
        /\ now >= 2 * w => ReceivedIn(w, 2 * w) = 2
        /\ now >= 3 * w =>
              /\ ReceivedIn(2 * w, 3 * w) = 1
              /\ sinks[stats] = [packets |-> 5, bytes |-> 500]

\* the three windows are over and the five datagrams were received
S1PacingWitness ==
    /\ now = S1End
    /\ limit.max_packets = 2 /\ limit.shift_millis = 3
    /\ Len(receipts.at) = 5
    /\ inner.queue = <<>>
    /\ sinks[stats].packets = 5

\* C18 of one batch poll of the adapter: a for the adapter, w for the wrapped
\* receiver polled with the same slots
BatchTransparentPoll(packets, a, w) ==
    /\ a.calls = <<[op |-> "poll_batch_recvmsg", bufs |-> packet_bufs(packets)]>>
    /\ a.inner = w
    /\ w.res.kind = "Pending" => a.res.kind = "Pending"
    /\ w.res.kind = "Err" => a.res.kind = "Err" /\ a.res.err = RecvFailed(w.res.err)
    /\ w.res.kind = "Ok" =>
          /\ a.res.kind = "Ok"
          /\ a.res.n = w.res.n
          /\ Len(a.packets) = Len(packets)
          /\ \A i \in 1..Len(packets) :
                IF i <= w.res.n
                THEN /\ a.packets[i].offset = 0
                     /\ a.packets[i].length = w.res.dgs[i].len
                     /\ a.packets[i].buf_len = packets[i].buf_len
                ELSE a.packets[i] = packets[i]

\* C18 of one single poll of the adapter
SingleTransparentPoll(buf_len, a, w) ==
    /\ a.calls = <<[op |-> "poll_recv", bufs |-> <<buf_len>>]>>
    /\ a.inner = w
    /\ w.res.kind = "Pending" => a.res.kind = "Pending"
    /\ w.res.kind = "Err" => a.res.kind = "Err" /\ a.res.err = RecvFailed(w.res.err)
    /\ w.res.kind = "Ok" => a.res = RemoteOk(0, w.res.n)

\* C18: the adapter polls the wrapped receiver exactly once, with every slot it
\* was offered; pending stays pending, an error e becomes RecvFailed(e), and a
\* count k is returned as it is, with offset 0 and the length of header i set on
\* every slot i < k and every other slot left as it was
AdapterTransparency ==
    /\ \A packets \in CallerPackets :
          \A f \in BatchFills(inner.queue, packet_bufs(packets), Fails) :
              BatchTransparentPoll(packets, poll_recv_packets(packets, f[1], f[2]),
                                   poll_batch_recvmsg(packet_bufs(packets), f[1], f[2]))
    /\ \A buf_len \in CallerLens, fail \in Fails :
          SingleTransparentPoll(buf_len, poll_recv_packet(buf_len, fail),
                                poll_recv(buf_len, fail))

\* after one batch through the adapter, a limited receiver fills the first of
\* two used packets and leaves the second as it was
AdapterTransparencyWitness ==
    /\ is_set(limit)
    /\ Len(emitted) > 0
    /\ \E packets \in CallerPackets :
          \E f \in BatchFills(inner.queue, packet_bufs(packets), {NoErr}) :
              LET a == poll_recv_packets(packets, f[1], f[2])
              IN  /\ Len(packets) = 2
                  /\ packets[1].offset = 1 /\ packets[2].offset = 1
                  /\ a.res.kind = "Ok" /\ a.res.n = 1
                  /\ a.packets[1] = UdpCopyPacket(packets[1].buf_len, 0, 2)
                  /\ a.packets[2] = packets[2]

====
